---- MODULE Spec2Model ----
(***************************************************************************)
(* Balance ledger cache of the SudoSOS back-end (BalanceService).          *)
(*                                                                         *)
(* The database tables the service queries are the state: the ledger       *)
(* (transaction, sub_transaction, sub_transaction_row, product_revision,   *)
(* transfer), the user table and the balance table (the snapshot store).   *)
(* Every awaited SQL statement of the service is one step, and other calls *)
(* run between the statements of one call: updateBalances issues two (the  *)
(* maxima query and the REPLACE INTO), getAllBalances three (the two of    *)
(* updateBalances and its select), the other operations one.               *)
(***************************************************************************)
EXTENDS Integers, Sequences, FiniteSets

VARIABLES
    transaction,          \* rows [id, fromId]
    sub_transaction,      \* rows [id, transactionId, toId]
    sub_transaction_row,  \* rows [id, subTransactionId, amount, productRevision, productProduct]
    product_revision,     \* rows [revision, productId, priceInclVat]
    transfer,             \* rows [id, fromId, toId, amount]
    balance,              \* rows [user_id, amount, lastTransaction, lastTransfer]
    inflight,             \* per caller: the call it is in and the maxima the call holds between its statements
    staged,               \* ledger entries whose id is allocated but which are not yet visible
    invoice,              \* rows [id, invoiceStatus], invoiceStatus the states of the invoice's statuses in order
    last                  \* the last operation, its argument, its result and the balance table before it

vars == <<transaction, sub_transaction, sub_transaction_row, product_revision,
          transfer, balance, inflight, staged, invoice, last>>

ledger == <<transaction, sub_transaction, sub_transaction_row, product_revision, transfer>>

----------------------------------------------------------------------------
(* Bounds and input domains *)

\* The ledger holds at most MaxLedger entries (transactions plus transfers).
MaxLedger == 2

\* SQL NULL in a nullable id column.
NULL == -1

\* The user table: the subjects.
user == {1, 2}

\* The callers that may run updateBalances or getAllBalances at the same time.
Callers == {1, 2}

\* The amount of a transfer (minor currency units).
TransferAmounts == {1000}

\* An optional argument (params, ids): absent, a single number or an array.
Undefined == [kind |-> "undefined", ids |-> {}]
Number(n) == [kind |-> "number", ids |-> {n}]
Array(S) == [kind |-> "array", ids |-> S]

\* No call in flight, no result.
None == [kind |-> "none"]

----------------------------------------------------------------------------
(* Arithmetic on query results *)

\* sum(amount) over the rows of a query result (rows are kept distinct by key).
RECURSIVE SumAmount(_)
SumAmount(rows) ==
    IF rows = {} THEN 0
    ELSE LET r == CHOOSE r \in rows : TRUE
         IN r.amount + SumAmount(rows \ {r})

\* max(id) over a table, NULL for an empty table.
MaxId(table) ==
    IF table = {} THEN NULL
    ELSE CHOOSE m \in {r.id : r \in table} : \A r \in table : r.id <= m

\* max() over a set of values in which NULL is ignored.
MaxOf(values) ==
    LET nonNull == values \ {NULL}
    IN IF nonNull = {} THEN NULL
       ELSE CHOOSE m \in nonNull : \A v \in nonNull : v <= m

----------------------------------------------------------------------------
(* The ledger joins shared by updateBalances and getBalances *)

\* A join that prices every row with the newest revision of its product.
SubTransactionValuesCurrentPrice(st) ==
    UNION { { [row |-> str.id, revision |-> pr.revision,
               value |-> str.amount * pr.priceInclVat]
              : pr \in { q \in product_revision :
                           /\ str.productProduct = q.productId
                           /\ \A o \in product_revision :
                                  o.productId = q.productId => o.revision <= q.revision } }
            : str \in { r \in sub_transaction_row : r.subTransactionId = st.id } }

\* sub_transaction st joined with its rows and their product revisions:
\*   inner join sub_transaction_row str on st.id = str.subTransactionId
\*   inner join product_revision pr on str.productRevision = pr.revision
\*                                 and str.productProduct = pr.productId
\* One result row per (str, pr) pair with the value str.amount * pr.priceInclVat.
SubTransactionValues(st) ==
    UNION { { [row |-> str.id, revision |-> pr.revision,
               value |-> str.amount * pr.priceInclVat]
              : pr \in { q \in product_revision :
                           /\ str.productRevision = q.revision
                           /\ str.productProduct = q.productId } }
            : str \in { r \in sub_transaction_row : r.subTransactionId = st.id } }

\* select t.fromId as id, str.amount * pr.priceInclVat * -1 as amount
\*   from transaction t inner join sub_transaction st on t.id = st.transactionId ...
\* for the transactions t in kept, the rows of transaction the where clause keeps.
PayerRows(kept) ==
    UNION { UNION { { [id |-> t.fromId, amount |-> v.value * (-1),
                       key |-> <<"payer", t.id, st.id, v.row, v.revision>>]
                      : v \in SubTransactionValues(st) }
                    : st \in { s \in sub_transaction : s.transactionId = t.id } }
            : t \in kept }

\* A recipient select that joins the rows over the transaction: a recipient
\* gets the rows of every sub-transaction of the transaction.
RecipientRowsOfTransaction(kept) ==
    UNION { UNION { { [id |-> st.toId, amount |-> v.value,
                       key |-> <<"recipient", st.transactionId, st.id, v.row, v.revision>>]
                      : v \in SubTransactionValues(o) }
                    : o \in { s \in sub_transaction : s.transactionId = st.transactionId } }
            : st \in kept }

\* select st2.toId as id, str2.amount * pr2.priceInclVat as amount
\*   from sub_transaction st2 ...
\* for the sub-transactions st2 in kept.
RecipientRows(kept) ==
    UNION { { [id |-> st.toId, amount |-> v.value,
               key |-> <<"recipient", st.transactionId, st.id, v.row, v.revision>>]
              : v \in SubTransactionValues(st) }
            : st \in kept }

\* A source select that forgets the sign.
TransferFromRowsUnsigned(kept) ==
    { [id |-> t.fromId, amount |-> t.amount, key |-> <<"from", t.id>>]
      : t \in kept }

\* select t2.fromId as id, amount * -1 as amount from transfer t2
TransferFromRows(kept) ==
    { [id |-> t.fromId, amount |-> t.amount * (-1), key |-> <<"from", t.id>>]
      : t \in kept }

\* select t3.toId as id, amount as amount from transfer t3
TransferToRows(kept) ==
    { [id |-> t.toId, amount |-> t.amount, key |-> <<"to", t.id>>]
      : t \in kept }

\* A scan that does not stop at the captured maximum.
UpToAny(id, max) == TRUE

\* where t.id <= ? : the entry is covered by the captured maximum.
UpTo(id, max) == id <= max

\* A read that counts the entry at the checkpoint again.
NewerOrEqual(id, checkpoint) == id >= checkpoint

\* where t.id > COALESCE(b.lastTransaction, 0) : the entry is newer than the checkpoint.
Newer(id, checkpoint) == id > checkpoint

\* The row of the balance table for a user id (left join balance b on ... = b.user_id).
BalanceOf(table, id) == { b \in table : b.user_id = id }

\* COALESCE(b.lastTransaction, 0) and COALESCE(b.lastTransfer, 0) of that left join.
CoalesceLastTransaction(table, id) ==
    IF BalanceOf(table, id) = {} THEN 0
    ELSE (CHOOSE b \in BalanceOf(table, id) : TRUE).lastTransaction

\* A coalesce that reads the transaction checkpoint for transfers.
CoalesceLastTransferOfTransaction(table, id) ==
    IF BalanceOf(table, id) = {} THEN 0
    ELSE (CHOOSE b \in BalanceOf(table, id) : TRUE).lastTransaction

CoalesceLastTransfer(table, id) ==
    IF BalanceOf(table, id) = {} THEN 0
    ELSE (CHOOSE b \in BalanceOf(table, id) : TRUE).lastTransfer

----------------------------------------------------------------------------
(* updateBalances *)

\* A maxima query that reads both maxima from the transaction table.
LastIdsOneTable ==
    [transactionMax |-> MaxOf({MaxId(transaction), 0}),
     transferMax |-> MaxOf({0, MaxId(transaction)})]

\* The maxima query: transactionMax and transferMax, 0 for an empty ledger.
LastIds ==
    [transactionMax |-> MaxOf({MaxId(transaction), 0}),
     transferMax |-> MaxOf({0, MaxId(transfer)})]

\* if (params && params.ids)
HasIds(params) == params.kind = "array"

\* The rows "moneys" without the "is not NULL" conditions on the transfer sides.
UpdateMoneysNullable(params, transactionMax, transferMax) ==
    LET inIds(id) == IF HasIds(params) THEN id \in params.ids ELSE TRUE
        payer(t) == UpTo(t.id, transactionMax) /\ inIds(t.fromId)
        recipient(st) == UpTo(st.transactionId, transactionMax) /\ inIds(st.toId)
        from(t) == UpTo(t.id, transferMax) /\ inIds(t.fromId)
        to(t) == UpTo(t.id, transferMax) /\ inIds(t.toId)
    IN PayerRows({ t \in transaction : payer(t) })
         \cup RecipientRows({ st \in sub_transaction : recipient(st) })
         \cup TransferFromRows({ t \in transfer : from(t) })
         \cup TransferToRows({ t \in transfer : to(t) })

\* The rows "moneys" of a statement that leaves the "IN (ids)" conditions out of
\* the transfer selects.
UpdateMoneysTransfersUnfiltered(params, transactionMax, transferMax) ==
    LET inIds(id) == IF HasIds(params) THEN id \in params.ids ELSE TRUE
        payer(t) == UpTo(t.id, transactionMax) /\ inIds(t.fromId)
        recipient(st) == UpTo(st.transactionId, transactionMax) /\ inIds(st.toId)
        from(t) == UpTo(t.id, transferMax) /\ t.fromId # NULL
        to(t) == UpTo(t.id, transferMax) /\ t.toId # NULL
    IN PayerRows({ t \in transaction : payer(t) })
         \cup RecipientRows({ st \in sub_transaction : recipient(st) })
         \cup TransferFromRows({ t \in transfer : from(t) })
         \cup TransferToRows({ t \in transfer : to(t) })

\* The rows "moneys" of the REPLACE INTO statement, for either branch of the if.
UpdateMoneys(params, transactionMax, transferMax) ==
    LET inIds(id) == IF HasIds(params) THEN id \in params.ids ELSE TRUE
        notNull(id) == IF HasIds(params) THEN id \in params.ids ELSE id # NULL
        payer(t) == UpTo(t.id, transactionMax) /\ inIds(t.fromId)
        recipient(st) == UpTo(st.transactionId, transactionMax) /\ inIds(st.toId)
        from(t) == UpTo(t.id, transferMax) /\ notNull(t.fromId)
        to(t) == UpTo(t.id, transferMax) /\ notNull(t.toId)
    IN PayerRows({ t \in transaction : payer(t) })
         \cup RecipientRows({ st \in sub_transaction : recipient(st) })
         \cup TransferFromRows({ t \in transfer : from(t) })
         \cup TransferToRows({ t \in transfer : to(t) })

\* A select that drops the subjects whose sum is zero.
UpdateSelectNonZero(params, transactionMax, transferMax) ==
    LET moneys == UpdateMoneys(params, transactionMax, transferMax)
    IN { [user_id |-> i,
          amount |-> SumAmount({ m \in moneys : m.id = i }),
          lastTransaction |-> transactionMax,
          lastTransfer |-> transferMax]
         : i \in { j \in { m.id : m \in moneys } :
                     SumAmount({ m \in moneys : m.id = j }) # 0 } }

\* A select that gives each subject the highest ids among its own entries.
UpdateSelectOwnCheckpoints(params, transactionMax, transferMax) ==
    LET moneys == UpdateMoneys(params, transactionMax, transferMax)
        own(i, roles) == { m.key[2] : m \in { r \in moneys : r.id = i /\ r.key[1] \in roles } }
    IN { [user_id |-> i,
          amount |-> SumAmount({ m \in moneys : m.id = i }),
          lastTransaction |-> MaxOf(own(i, {"payer", "recipient"}) \cup {0}),
          lastTransfer |-> MaxOf(own(i, {"from", "to"}) \cup {0})]
         : i \in { m.id : m \in moneys } }

\* select id, sum(amount), transactionMax, transferMax from moneys group by moneys.id
UpdateSelect(params, transactionMax, transferMax) ==
    LET moneys == UpdateMoneys(params, transactionMax, transferMax)
    IN { [user_id |-> i,
          amount |-> SumAmount({ m \in moneys : m.id = i }),
          lastTransaction |-> transactionMax,
          lastTransfer |-> transferMax]
         : i \in { m.id : m \in moneys } }

\* An upsert that adds the selected amount onto the amount already cached.
ReplaceIntoAdding(table, rows) ==
    { b \in table : \A r \in rows : r.user_id # b.user_id }
      \cup { [r EXCEPT !.amount = r.amount + SumAmount(BalanceOf(table, r.user_id))]
             : r \in rows }

\* An upsert that updates the amount of an existing row and keeps its checkpoints.
ReplaceIntoAmountOnly(table, rows) ==
    { b \in table : \A r \in rows : r.user_id # b.user_id }
      \cup { IF BalanceOf(table, r.user_id) = {} THEN r
             ELSE [(CHOOSE b \in BalanceOf(table, r.user_id) : TRUE)
                     EXCEPT !.amount = r.amount]
             : r \in rows }

\* An upsert that merges: the selected amount with the greater of the stored and
\* the selected checkpoints.
ReplaceIntoMaxCheckpoints(table, rows) ==
    { b \in table : \A r \in rows : r.user_id # b.user_id }
      \cup { IF BalanceOf(table, r.user_id) = {} THEN r
             ELSE LET old == CHOOSE b \in BalanceOf(table, r.user_id) : TRUE
                  IN [r EXCEPT !.lastTransaction = MaxOf({old.lastTransaction, r.lastTransaction}),
                               !.lastTransfer = MaxOf({old.lastTransfer, r.lastTransfer})]
             : r \in rows }

\* REPLACE INTO balance: a selected row replaces the row with the same user_id.
ReplaceInto(table, rows) ==
    { b \in table : \A r \in rows : r.user_id # b.user_id } \cup rows

----------------------------------------------------------------------------
(* getBalances *)

\* ids !== undefined
IdsGiven(ids) == ids.kind # "undefined"

\* The rows "moneys" of the read: the deltas newer than the checkpoints of the
\* subject's row in the balance table (0 without a row).
PendingMoneys(table, ids) ==
    LET inIds(id) == IF IdsGiven(ids) THEN id \in ids.ids ELSE TRUE
        payer(t) == /\ Newer(t.id, CoalesceLastTransaction(table, t.fromId))
                    /\ inIds(t.fromId)
        recipient(st) == /\ Newer(st.transactionId, CoalesceLastTransaction(table, st.toId))
                         /\ inIds(st.toId)
        from(t) == Newer(t.id, CoalesceLastTransfer(table, t.fromId)) /\ inIds(t.fromId)
        to(t) == Newer(t.id, CoalesceLastTransfer(table, t.toId)) /\ inIds(t.toId)
    IN PayerRows({ t \in transaction : payer(t) })
         \cup RecipientRows({ st \in sub_transaction : recipient(st) })
         \cup TransferFromRows({ t \in transfer : from(t) })
         \cup TransferToRows({ t \in transfer : to(t) })

\* A query that joins user and moneys with an inner join: a user without
\* pending rows is not returned.
BalancesQueryInnerJoin(table, ids) ==
    LET moneys == PendingMoneys(table, ids)
        b5(i) == BalanceOf(table, i)
        row(i) == CHOOSE b \in b5(i) : TRUE
    IN { [id |-> u,
          amount |-> SumAmount({ m \in moneys : m.id = u })
                       + (IF b5(u) = {} THEN 0 ELSE row(u).amount),
          count |-> Cardinality({ m \in moneys : m.id = u }),
          lastTransaction |-> IF b5(u) = {} THEN NULL ELSE row(u).lastTransaction,
          lastTransfer |-> IF b5(u) = {} THEN NULL ELSE row(u).lastTransfer,
          cachedAmount |-> IF b5(u) = {} THEN NULL ELSE row(u).amount]
         : u \in { x \in user : /\ (IF IdsGiven(ids) THEN x \in ids.ids ELSE TRUE)
                                 /\ (\E m \in moneys : m.id = x) } }

\* A query without the COALESCE around b5.amount: a user without balance row
\* gets the amount NULL.
BalancesQueryNullAmount(table, ids) ==
    LET moneys == PendingMoneys(table, ids)
        b5(i) == BalanceOf(table, i)
        row(i) == CHOOSE b \in b5(i) : TRUE
    IN { [id |-> u,
          amount |-> IF b5(u) = {} THEN NULL
                     ELSE SumAmount({ m \in moneys : m.id = u }) + row(u).amount,
          count |-> Cardinality({ m \in moneys : m.id = u }),
          lastTransaction |-> IF b5(u) = {} THEN NULL ELSE row(u).lastTransaction,
          lastTransfer |-> IF b5(u) = {} THEN NULL ELSE row(u).lastTransfer,
          cachedAmount |-> IF b5(u) = {} THEN NULL ELSE row(u).amount]
         : u \in { x \in user : IF IdsGiven(ids) THEN x \in ids.ids ELSE TRUE } }

\* The rows the query returns: one per user (of ids, when given), the pending
\* total plus COALESCE(b5.amount, 0), with the columns of the left-joined row.
BalancesQuery(table, ids) ==
    LET moneys == PendingMoneys(table, ids)
        b5(i) == BalanceOf(table, i)
        row(i) == CHOOSE b \in b5(i) : TRUE
    IN { [id |-> u,
          amount |-> SumAmount({ m \in moneys : m.id = u })
                       + (IF b5(u) = {} THEN 0 ELSE row(u).amount),
          count |-> Cardinality({ m \in moneys : m.id = u }),
          lastTransaction |-> IF b5(u) = {} THEN NULL ELSE row(u).lastTransaction,
          lastTransfer |-> IF b5(u) = {} THEN NULL ELSE row(u).lastTransfer,
          cachedAmount |-> IF b5(u) = {} THEN NULL ELSE row(u).amount]
         : u \in { x \in user : IF IdsGiven(ids) THEN x \in ids.ids ELSE TRUE } }

asBalanceResponse(rawBalance) ==
    [id |-> rawBalance.id,
     amount |-> rawBalance.amount,
     lastTransactionId |-> rawBalance.lastTransaction,
     lastTransferId |-> rawBalance.lastTransfer]

\* getBalances(ids): the responses, or the TypeError that reading balances[0]
\* of an empty result raises.
getBalancesOn(table, ids) ==
    LET balances == BalancesQuery(table, ids)
    IN IF balances = {}
       THEN [kind |-> "TypeError"]
       ELSE [kind |-> "responses",
             responses |-> { asBalanceResponse(b) : b \in balances }]

getBalances(ids) == getBalancesOn(balance, ids)

\* getBalance(id): the first (only) response of getBalances([id]).
getBalanceOn(table, id) ==
    LET r == getBalancesOn(table, Array({id}))
    IN IF r.kind = "responses"
       THEN [kind |-> "response", response |-> CHOOSE b \in r.responses : TRUE]
       ELSE r

getBalance(id) == getBalanceOn(balance, id)

----------------------------------------------------------------------------
(* clearBalanceCache *)

\* if (ids): a number other than 0 and every array are truthy.
Truthy(ids) ==
    \/ ids.kind = "array"
    \/ ids.kind = "number" /\ ids.ids # {0}

\* A clear that resets the amount of the rows and keeps their checkpoints.
clearBalanceCacheReset(table, ids) ==
    { IF Truthy(ids) /\ b.user_id \notin ids.ids THEN b ELSE [b EXCEPT !.amount = 0]
      : b \in table }

\* Balance.delete(ids) with an empty array of ids: the delete method rejects
\* empty criteria and deletes nothing.
EmptyCriteria(ids) == ids.kind = "array" /\ ids.ids = {}

\* Balance.delete(ids), or DELETE from balance where 1=1.
clearBalanceCache(table, ids) ==
    IF Truthy(ids)
    THEN { b \in table : b.user_id \notin ids.ids }
    ELSE {}

\* What the call gives its caller: nothing, or the error of the delete method.
clearBalanceCacheResult(ids) ==
    IF EmptyCriteria(ids)
    THEN [kind |-> "error", statement |-> "delete"]
    ELSE None

----------------------------------------------------------------------------
(* The ledger source: appends of whole transactions and of transfers *)

\* Every row of a table, visible or staged.
AllRows(table, field) == table \cup UNION { w[field] : w \in staged }

\* The next auto-increment id of a table.
NextId(rows) == MaxOf({MaxId(rows), 0}) + 1

\* The number of rows of the sub-transactions before the k-th.
RECURSIVE RowsBefore(_, _)
RowsBefore(subs, k) ==
    IF k <= 1 THEN 0 ELSE Len(subs[k - 1].rows) + RowsBefore(subs, k - 1)

\* The rows a new transaction of payer from with the given sub-transactions
\* inserts, and the rows a new transfer inserts.
NewTransaction(from, subs) ==
    LET tid == NextId(AllRows(transaction, "transaction"))
        sid == NextId(AllRows(sub_transaction, "sub_transaction"))
        rid == NextId(AllRows(sub_transaction_row, "sub_transaction_row"))
    IN [transaction |-> { [id |-> tid, fromId |-> from] },
        sub_transaction |->
            { [id |-> sid + k - 1, transactionId |-> tid, toId |-> subs[k].toId]
              : k \in 1..Len(subs) },
        sub_transaction_row |->
            UNION { { [id |-> rid + RowsBefore(subs, k) + j - 1,
                       subTransactionId |-> sid + k - 1,
                       amount |-> subs[k].rows[j].amount,
                       productRevision |-> subs[k].rows[j].productRevision,
                       productProduct |-> subs[k].rows[j].productProduct]
                      : j \in 1..Len(subs[k].rows) }
                    : k \in 1..Len(subs) },
        transfer |-> {}]

NewTransfer(from, to, amount) ==
    [transaction |-> {}, sub_transaction |-> {}, sub_transaction_row |-> {},
     transfer |-> { [id |-> NextId(AllRows(transfer, "transfer")),
                     fromId |-> from, toId |-> to, amount |-> amount] }]

\* The rows of a write become visible.
Insert(w) ==
    /\ transaction' = transaction \cup w.transaction
    /\ sub_transaction' = sub_transaction \cup w.sub_transaction
    /\ sub_transaction_row' = sub_transaction_row \cup w.sub_transaction_row
    /\ transfer' = transfer \cup w.transfer

LedgerSize ==
    Cardinality(AllRows(transaction, "transaction"))
      + Cardinality(AllRows(transfer, "transfer"))

\* The inputs of an append: a row of a sub-transaction buys a quantity of a
\* product revision; a transaction has one sub-transaction of one row, or two
\* sub-transactions for two recipients, the second of two rows.
Row(quantity, pr) ==
    [amount |-> quantity, productRevision |-> pr.revision, productProduct |-> pr.productId]

TransactionInputs ==
    UNION { { << [toId |-> u, rows |-> << Row(3, pr) >>] >> : u \in user }
            \cup { << [toId |-> 1, rows |-> << Row(1, pr) >>],
                      [toId |-> 2, rows |-> << Row(1, pr), Row(2, pr) >>] >> }
            : pr \in product_revision }

TransferInputs ==
    { p \in (user \cup {NULL}) \X (user \cup {NULL}) : p[1] # p[2] }

\* The maxima an updateBalances call holds after its first statement.
Maxima(params, lastIds) ==
    [kind |-> "maxima", params |-> params,
     transactionMax |-> lastIds.transactionMax, transferMax |-> lastIds.transferMax]

\* The record of the statement that completed last, with the balance table and
\* the ledger as they were before it: again tells that an updateBalances call
\* repeats the call that returned before it, with the same argument, both with
\* the maxima of the ledger as it is (no append since the first captured its).
Op(name, arg, result) ==
    [op |-> name, arg |-> arg, result |-> result, before |-> balance,
     again |-> /\ name = "updateBalances" /\ last.op = name /\ last.arg = arg
               /\ result.kind = "maxima" /\ last.result.kind = "maxima"
               /\ result.transactionMax = LastIds.transactionMax
               /\ result.transferMax = LastIds.transferMax
               /\ last.result.transactionMax = LastIds.transactionMax
               /\ last.result.transferMax = LastIds.transferMax,
     ledgerBefore |-> ledger]

----------------------------------------------------------------------------
(* Actions *)

Init ==
    /\ transaction = {}
    /\ sub_transaction = {}
    /\ sub_transaction_row = {}
    /\ product_revision = { [revision |-> 1, productId |-> 1, priceInclVat |-> 150] }
    /\ transfer = {}
    /\ balance = {}
    /\ inflight = [c \in Callers |-> None]
    /\ staged = {}
    /\ invoice = {}
    /\ last = [op |-> "init", arg |-> Undefined, result |-> None, before |-> {},
               again |-> FALSE, ledgerBefore |-> ledger]

\* A transaction is saved with its sub-transactions and rows.
AppendTransaction(from, subs) ==
    /\ LedgerSize < MaxLedger
    /\ Insert(NewTransaction(from, subs))
    /\ last' = Op("appendTransaction", Undefined, None)
    /\ UNCHANGED <<invoice, product_revision, balance, inflight, staged>>

\* A transfer is saved.
AppendTransfer(from, to, amount) ==
    /\ LedgerSize < MaxLedger
    /\ Insert(NewTransfer(from, to, amount))
    /\ last' = Op("appendTransfer", Undefined, None)
    /\ UNCHANGED <<invoice, product_revision, balance, inflight, staged>>

\* The callers are interchangeable: a new call takes the lowest idle one.
Idle(c) ==
    /\ inflight[c] = None
    /\ \A d \in Callers : d < c => inflight[d] # None

\* The maxima query of updateBalances(params): the call holds the maxima while
\* it awaits, and other requests run before its next statement.
UpdateBalancesMaxima(c, params) ==
    /\ Idle(c)
    /\ inflight' = [inflight EXCEPT ![c] = Maxima(params, LastIds)]
    /\ UNCHANGED <<invoice, ledger, balance, staged, last>>

\* The REPLACE INTO of a call that holds its maxima; the call returns.
UpdateBalancesReplace(c) ==
    /\ inflight[c].kind = "maxima"
    /\ balance' = ReplaceInto(balance,
                      UpdateSelect(inflight[c].params, inflight[c].transactionMax,
                                   inflight[c].transferMax))
    /\ inflight' = [inflight EXCEPT ![c] = None]
    /\ last' = Op("updateBalances", inflight[c].params, inflight[c])
    /\ UNCHANGED <<invoice, ledger, staged>>

\* clearBalanceCache(ids): one delete statement.
ClearBalanceCache(ids) ==
    /\ balance' = IF EmptyCriteria(ids) THEN balance ELSE clearBalanceCache(balance, ids)
    /\ last' = Op("clearBalanceCache", ids, clearBalanceCacheResult(ids))
    /\ UNCHANGED <<invoice, ledger, inflight, staged>>

\* A read that stores what it computed as the subject's snapshot.
GetBalanceCaching(id) ==
    /\ last' = Op("getBalance", Number(id), getBalance(id))
    /\ balance' = ReplaceInto(balance,
                      { [user_id |-> id, amount |-> getBalance(id).response.amount,
                         lastTransaction |-> LastIds.transactionMax,
                         lastTransfer |-> LastIds.transferMax] })
    /\ UNCHANGED <<invoice, ledger, inflight, staged>>

GetBalance(id) ==
    /\ last' = Op("getBalance", Number(id), getBalance(id))
    /\ UNCHANGED <<invoice, ledger, balance, inflight, staged>>

GetBalances(ids) ==
    /\ last' = Op("getBalances", ids, getBalances(ids))
    /\ UNCHANGED <<invoice, ledger, balance, inflight, staged>>

\* The select of getAllBalances over the refreshed table: per id the sum over
\* the union of (id, 0) for the users and (user_id, amount) for the balance rows.
\* With ids, idStr holds 2n placeholders and stands in both "in (...)" lists,
\* 4n placeholders for the 2n values of params.ids.concat(params.ids): the
\* values fill the list of the user half and the list of the balance half is
\* left without values, so that no balance row is selected.
getAllBalancesSelect(table, params) ==
    LET rows == IF HasIds(params)
                THEN { [id |-> u, amount |-> 0] : u \in { x \in user : x \in params.ids } }
                ELSE { [id |-> u, amount |-> 0] : u \in user }
                       \cup { [id |-> b.user_id, amount |-> b.amount] : b \in table }
    IN { [id |-> i, amount |-> SumAmount({ r \in rows : r.id = i })]
         : i \in { r.id : r \in rows } }

\* getAllBalances(params) awaits updateBalances(params), two statements, and
\* then its select: three statements between which other requests run. After
\* the maxima query the call holds the maxima and awaits the REPLACE INTO.
AwaitingReplace(params, lastIds) ==
    [kind |-> "getAllBalances", params |-> params,
     transactionMax |-> lastIds.transactionMax, transferMax |-> lastIds.transferMax]

\* After updateBalances has returned the call awaits its select.
AwaitingSelect(held) == [held EXCEPT !.kind = "select"]

GetAllBalancesMaxima(c, params) ==
    /\ Idle(c)
    /\ inflight' = [inflight EXCEPT ![c] = AwaitingReplace(params, LastIds)]
    /\ UNCHANGED <<invoice, ledger, balance, staged, last>>

\* The REPLACE INTO of the updateBalances call inside getAllBalances, which
\* returns to getAllBalances.
GetAllBalancesReplace(c) ==
    /\ inflight[c].kind = "getAllBalances"
    /\ balance' = ReplaceInto(balance,
                      UpdateSelect(inflight[c].params, inflight[c].transactionMax,
                                   inflight[c].transferMax))
    /\ inflight' = [inflight EXCEPT ![c] = AwaitingSelect(inflight[c])]
    /\ last' = Op("updateBalances", inflight[c].params,
                   Maxima(inflight[c].params, inflight[c]))
    /\ UNCHANGED <<invoice, ledger, staged>>

\* The select over the balance table as it is now; getAllBalances returns.
\* With ids the select has more placeholders than values: the database driver
\* either binds NULL to the placeholders left over (lenient) or rejects the
\* query. Next to the map the call returns, last records the maxima it held.
GetAllBalancesSelect(c, lenient) ==
    /\ inflight[c].kind = "select"
    /\ inflight' = [inflight EXCEPT ![c] = None]
    /\ last' = Op("getAllBalances", inflight[c].params,
                   IF HasIds(inflight[c].params) /\ ~lenient
                   THEN [kind |-> "error", statement |-> "select"]
                   ELSE [kind |-> "map",
                         map |-> getAllBalancesSelect(balance, inflight[c].params),
                         transactionMax |-> inflight[c].transactionMax,
                         transferMax |-> inflight[c].transferMax])
    /\ UNCHANGED <<invoice, ledger, balance, staged>>

\* The ledger inputs of the overlapping runs: user 1 buys from user 2, a
\* deposit for user 1 and a transfer from user 1 to user 2.
ConcurrentTransactionInputs ==
    { << [toId |-> 2, rows |-> << Row(3, pr) >>] >> : pr \in product_revision }

ConcurrentTransferInputs == { <<NULL, 1>>, <<1, 2>> }

ConcurrentParams == { Undefined, Array({1}) }

\* The clears of one subject or of all.
SubjectClearArgs == {Undefined} \cup { Number(n) : n \in user }

ClearArgs ==
    {Undefined} \cup { Number(n) : n \in user } \cup { Array(S) : S \in (SUBSET user) \ {{}} }

\* The service over the small ledger: appends, refreshes of one or all
\* subjects by two callers, clears, reads, and getAllBalances() of all subjects
\* by the first caller, every call interleaved statement by statement with the
\* others.
Next ==
    \/ \E subs \in ConcurrentTransactionInputs : AppendTransaction(1, subs)
    \/ \E p \in ConcurrentTransferInputs, amount \in TransferAmounts :
           AppendTransfer(p[1], p[2], amount)
    \/ \E c \in Callers, params \in ConcurrentParams : UpdateBalancesMaxima(c, params)
    \/ \E c \in Callers : UpdateBalancesReplace(c)
    \/ \E ids \in SubjectClearArgs : ClearBalanceCache(ids)
    \/ \E id \in user : GetBalance(id)
    \/ GetBalances(Undefined)
    \/ GetAllBalancesMaxima(1, Undefined)
    \/ GetAllBalancesReplace(1)
    \/ \E lenient \in BOOLEAN : GetAllBalancesSelect(1, lenient)

Spec == Init /\ [][Next]_vars

----------------------------------------------------------------------------
(* Overlapping refreshes of one or all subjects over a small ledger *)

NextConcurrent ==
    \/ \E subs \in ConcurrentTransactionInputs : AppendTransaction(1, subs)
    \/ \E p \in ConcurrentTransferInputs, amount \in TransferAmounts :
           AppendTransfer(p[1], p[2], amount)
    \/ \E c \in Callers, params \in ConcurrentParams : UpdateBalancesMaxima(c, params)
    \/ \E c \in Callers : UpdateBalancesReplace(c)
    \/ \E id \in user : GetBalance(id)

SpecConcurrent == Init /\ [][NextConcurrent]_vars

----------------------------------------------------------------------------
(* Concurrent ledger writers: an entry takes its id when it is inserted and
   becomes visible to the service when its writer commits *)

\* A writer inserts a transaction: the ids are allocated, the rows not yet visible.
StageTransaction(from, subs) ==
    /\ LedgerSize < MaxLedger
    /\ staged' = staged \cup { NewTransaction(from, subs) }
    /\ UNCHANGED <<invoice, ledger, balance, inflight, last>>

\* A writer inserts a transfer.
StageTransfer(from, to, amount) ==
    /\ LedgerSize < MaxLedger
    /\ staged' = staged \cup { NewTransfer(from, to, amount) }
    /\ UNCHANGED <<invoice, ledger, balance, inflight, last>>

\* A writer commits, in any order among the writers.
Commit(w) ==
    /\ w \in staged
    /\ Insert(w)
    /\ staged' = staged \ {w}
    /\ last' = Op("commit", Undefined, None)
    /\ UNCHANGED <<invoice, product_revision, balance, inflight>>

NextWriters ==
    \/ \E subs \in ConcurrentTransactionInputs : StageTransaction(1, subs)
    \/ \E p \in ConcurrentTransferInputs, amount \in TransferAmounts :
           StageTransfer(p[1], p[2], amount)
    \/ \E w \in staged : Commit(w)
    \/ \E c \in Callers, params \in ConcurrentParams : UpdateBalancesMaxima(c, params)
    \/ \E c \in Callers : UpdateBalancesReplace(c)
    \/ \E ids \in ClearArgs : ClearBalanceCache(ids)
    \/ \E id \in user : GetBalance(id)

SpecWriters == Init /\ [][NextWriters]_vars

----------------------------------------------------------------------------
(* The calls with every kind of argument: bulk reads, and clears by a number,
   an array or nothing *)

ReadArgs == {Undefined} \cup { Array(S) : S \in SUBSET user }

AnyClearArgs == SubjectClearArgs \cup { Number(0), Array({}), Array({2}), Array(user) }

NextArguments ==
    \/ \E subs \in ConcurrentTransactionInputs : AppendTransaction(1, subs)
    \/ \E amount \in TransferAmounts : AppendTransfer(NULL, 1, amount)
    \/ \E ids \in AnyClearArgs : ClearBalanceCache(ids)
    \/ \E id \in user : GetBalance(id)
    \/ \E ids \in ReadArgs : GetBalances(ids)
    \/ \E c \in Callers, params \in ConcurrentParams : GetAllBalancesMaxima(c, params)
    \/ \E c \in Callers : GetAllBalancesReplace(c)
    \/ \E c \in Callers, lenient \in BOOLEAN : GetAllBalancesSelect(c, lenient)

SpecArguments == Init /\ [][NextArguments]_vars

----------------------------------------------------------------------------
(* Every shape of ledger entry, refreshed and read: transactions with one or
   two recipients and any payer, transfers with or without either side. One
   refresh of all subjects is in flight at a time; entries are appended and
   reads run between its statements. *)

NextLedger ==
    \/ \E from \in user, subs \in TransactionInputs : AppendTransaction(from, subs)
    \/ \E p \in TransferInputs, amount \in TransferAmounts : AppendTransfer(p[1], p[2], amount)
    \/ UpdateBalancesMaxima(1, Undefined)
    \/ UpdateBalancesReplace(1)
    \/ \E id \in user : GetBalance(id)

SpecLedger == Init /\ [][NextLedger]_vars

----------------------------------------------------------------------------
(* Ledger entries of subjects without a row in the user table *)

NonUsers == {3}

StrangerTransferInputs == { <<NULL, 3>>, <<3, 1>>, <<NULL, 1>> }

StrangerParams == { Undefined, Array({3}), Array({1, 3}) }

NextStrangers ==
    \/ \E p \in StrangerTransferInputs, amount \in TransferAmounts :
           AppendTransfer(p[1], p[2], amount)
    \/ \E ids \in {Undefined} \cup { Number(n) : n \in NonUsers } : ClearBalanceCache(ids)
    \/ \E id \in user : GetBalance(id)
    \/ \E c \in Callers, params \in StrangerParams : GetAllBalancesMaxima(c, params)
    \/ \E c \in Callers : GetAllBalancesReplace(c)
    \/ \E c \in Callers, lenient \in BOOLEAN : GetAllBalancesSelect(c, lenient)

SpecStrangers == Init /\ [][NextStrangers]_vars

----------------------------------------------------------------------------
(* Large amounts: the read of a subject whose pending rows are large. The
   database computes with 64-bit integers; the row it returns holds the amount
   as a number of the service, a double with 53 bits of precision. An integer
   is kept here in two limbs, hi * Base + lo, below 2^54. *)

Base == 2^27

Big(hi, lo) == [hi |-> hi, lo |-> lo]

\* a + b and q * a in the database, for a small q: exact below 2^63.
BigPlus(a, b) ==
    Big(a.hi + b.hi + ((a.lo + b.lo) \div Base), (a.lo + b.lo) % Base)

BigTimes(q, a) ==
    Big(q * a.hi + ((q * a.lo) \div Base), (q * a.lo) % Base)

\* The totalValue of a pending row: the amount of a transfer to the subject, or
\* str.amount * pr.priceInclVat of a row sold by the subject.
TotalValue(row) ==
    IF row.kind = "transfer" THEN row.amount ELSE BigTimes(row.quantity, row.price)

\* sum(moneys.totalValue) over the pending rows.
RECURSIVE BigSum(_)
BigSum(rows) ==
    IF rows = << >> THEN Big(0, 0)
    ELSE BigPlus(TotalValue(Head(rows)), BigSum(Tail(rows)))

\* The 64-bit integer n of a result row as a number of the service: exact up to
\* 2^53; from 2^53 to 2^54 the numbers are the even integers, and an odd n
\* becomes the neighbour that is a multiple of 4 (round to nearest, ties to even).
ToNumber(n) ==
    IF n.hi < 2^26 \/ n.lo % 2 = 0 THEN n
    ELSE IF n.lo % 4 = 1 THEN Big(n.hi, n.lo - 1)
    ELSE IF n.lo + 1 = Base THEN Big(n.hi + 1, 0)
    ELSE Big(n.hi, n.lo + 1)

\* Amounts and prices: 1, 150, 2^52, 2^52 + 1, 2^53 - 1 and 2^53.
BigAmounts ==
    { Big(0, 1), Big(0, 150), Big(2^25, 0), Big(2^25, 1), Big(2^26 - 1, Base - 1),
      Big(2^26, 0) }

BigPrices == { Big(0, 150), Big(2^25, 1) }

PendingRowInputs ==
    { [kind |-> "transfer", amount |-> a] : a \in BigAmounts }
      \cup { [kind |-> "row", quantity |-> q, price |-> p] : q \in 1..3, p \in BigPrices }

\* The pending rows of the subject: one or two rows whose sum is below 2^54.
PendingInputs ==
    { rows \in UNION { [1..n -> PendingRowInputs] : n \in 1..2 } : BigSum(rows).hi < Base }

\* getBalance(id) of a subject without balance row whose pending rows are rows:
\* the database sums them, the row's amount reaches asBalanceResponse as a number.
GetBalanceOfRows(id, rows) ==
    /\ last' = Op("getBalance", [kind |-> "rows", ids |-> {id}, rows |-> rows],
                   [kind |-> "response",
                    response |-> [id |-> id, amount |-> ToNumber(BigSum(rows))]])
    /\ UNCHANGED <<invoice, ledger, balance, inflight, staged>>

NextOverflow ==
    \E rows \in PendingInputs : GetBalanceOfRows(1, rows)

SpecOverflow == Init /\ [][NextOverflow]_vars

----------------------------------------------------------------------------
(* Price changes: a product gets newer revisions while sales reference the
   revision that is current when they are made *)

MaxRevisions == 2

Prices == {150, 200}

\* The current revision of the product: the one with the highest number.
CurrentRevision ==
    CHOOSE pr \in product_revision : \A o \in product_revision : o.revision <= pr.revision

\* The sales that can be made now: every row references the current revision.
SaleInputs ==
    { subs \in ConcurrentTransactionInputs :
        \A k \in 1..Len(subs) : \A j \in 1..Len(subs[k].rows) :
            subs[k].rows[j].productRevision = CurrentRevision.revision }

\* The product gets a new revision with another price, which becomes current.
\* The record keeps what every read and an unfiltered refresh select gave before.
AddProductRevision(price) ==
    /\ Cardinality(product_revision) < MaxRevisions
    /\ price # CurrentRevision.priceInclVat
    /\ product_revision' = product_revision \cup
           { [revision |-> CurrentRevision.revision + 1,
              productId |-> CurrentRevision.productId,
              priceInclVat |-> price] }
    /\ last' = Op("addProductRevision", Undefined,
                   [kind |-> "before",
                    reads |-> [x \in user |-> getBalance(x)],
                    select |-> UpdateSelect(Undefined, LastIds.transactionMax,
                                            LastIds.transferMax)])
    /\ UNCHANGED <<invoice, transaction, sub_transaction, sub_transaction_row, transfer,
                   balance, inflight, staged>>

NextPrices ==
    \/ \E subs \in SaleInputs : AppendTransaction(1, subs)
    \/ \E amount \in TransferAmounts : AppendTransfer(1, 2, amount)
    \/ \E price \in Prices : AddProductRevision(price)
    \/ \E c \in Callers, params \in ConcurrentParams : UpdateBalancesMaxima(c, params)
    \/ \E c \in Callers : UpdateBalancesReplace(c)
    \/ \E id \in user : GetBalance(id)

SpecPrices == Init /\ [][NextPrices]_vars

----------------------------------------------------------------------------
(* Failing refreshes: a statement of updateBalances raises an error *)

\* updateBalances(params) whose maxima query raises: the rejection reaches the
\* caller and nothing is written.
UpdateBalancesMaximaFails(params) ==
    /\ \E c \in Callers : Idle(c)
    /\ last' = Op("updateBalances", params, [kind |-> "error", statement |-> "maxima"])
    /\ UNCHANGED <<invoice, ledger, balance, inflight, staged>>

\* A failing REPLACE INTO that has stored one of its rows.
UpdateBalancesReplaceFailsPartway(c) ==
    LET rows == UpdateSelect(inflight[c].params, inflight[c].transactionMax,
                             inflight[c].transferMax)
    IN /\ inflight[c].kind = "maxima"
       /\ balance' = IF rows # {}
                     THEN ReplaceInto(balance, { CHOOSE r \in rows : TRUE })
                     ELSE balance
       /\ inflight' = [inflight EXCEPT ![c] = None]
       /\ last' = Op("updateBalances", inflight[c].params,
                      [kind |-> "error", statement |-> "replace"])
       /\ UNCHANGED <<invoice, ledger, staged>>

\* The REPLACE INTO of a call that holds its maxima raises: the rejection
\* reaches the caller; the failed statement stores no row.
UpdateBalancesReplaceFails(c) ==
    /\ inflight[c].kind = "maxima"
    /\ inflight' = [inflight EXCEPT ![c] = None]
    /\ last' = Op("updateBalances", inflight[c].params,
                   [kind |-> "error", statement |-> "replace"])
    /\ UNCHANGED <<invoice, ledger, balance, staged>>

NextFailures ==
    \/ \E subs \in ConcurrentTransactionInputs : AppendTransaction(1, subs)
    \/ \E p \in ConcurrentTransferInputs, amount \in TransferAmounts :
           AppendTransfer(p[1], p[2], amount)
    \/ \E c \in Callers, params \in ConcurrentParams : UpdateBalancesMaxima(c, params)
    \/ \E c \in Callers : UpdateBalancesReplace(c)
    \/ \E params \in ConcurrentParams : UpdateBalancesMaximaFails(params)
    \/ \E c \in Callers : UpdateBalancesReplaceFails(c)
    \/ ClearBalanceCache(Undefined)
    \/ \E id \in user : GetBalance(id)

SpecFailures == Init /\ [][NextFailures]_vars

----------------------------------------------------------------------------
(* Invoice request validation (verifyUpdateInvoiceRequest and the validators
   of the invoice request specifications). The validators read the invoice
   table and write nothing. verifyUpdateInvoiceRequest awaits its rules one
   after the other, and other requests change the invoice table in between. *)

\* InvoiceState (entity/invoices/invoice-status): every member is truthy.
InvoiceState == {"CREATED", "SENT", "PAID", "DELETED"}

\* A property that the request does not carry.
Absent == "undefined"

\* Either: toPass(p), toFail(error), and a rejected promise (an exception).
\* ids are the ids an error lists.
toPass == [kind |-> "pass", error |-> "", ids |-> {}]
toFail(error) == [kind |-> "fail", error |-> error, ids |-> {}]
toFailListing(error, ids) == [kind |-> "fail", error |-> error, ids |-> ids]
Throws(error) == [kind |-> "throw", error |-> error, ids |-> {}]

\* Invoice.findOne({ where: { id }, relations: ['invoiceStatus'] }): the
\* invoices of that id (none means null).
FindOneInvoice(invoices, id) == { i \in invoices : i.id = id }

\* base.invoiceStatus[base.invoiceStatus.length - 1].state of the invoice found.
LatestState(base) == base.invoiceStatus[Len(base.invoiceStatus)]

existsAndNotDeleted(invoices, p) ==
    LET found == FindOneInvoice(invoices, p.invoiceId) IN
    IF found = {} THEN toFail("INVALID_INVOICE_ID")
    ELSE LET base == CHOOSE i \in found : TRUE IN
         IF base.invoiceStatus = <<>>
         THEN Throws("TypeError")
         ELSE IF LatestState(base) = "DELETED"
              THEN toFail("INVOICE_IS_DELETED")
              ELSE toPass

\* A validator that compares the state with the first status of the invoice.
differentStateFirstStatus(invoices, p) ==
    IF p.state = Absent THEN toPass
    ELSE LET found == FindOneInvoice(invoices, p.invoiceId) IN
         IF found = {} THEN Throws("TypeError")
         ELSE LET base == CHOOSE i \in found : TRUE IN
              IF base.invoiceStatus = <<>>
              THEN Throws("TypeError")
              ELSE IF base.invoiceStatus[1] = p.state
                   THEN toFail("SAME_INVOICE_STATE")
                   ELSE toPass

\* if (!p.state) pass; then base.invoiceStatus is read of whatever findOne
\* returned: of null it is a TypeError.
differentState(invoices, p) ==
    IF p.state = Absent THEN toPass
    ELSE LET found == FindOneInvoice(invoices, p.invoiceId) IN
         IF found = {} THEN Throws("TypeError")
         ELSE LET base == CHOOSE i \in found : TRUE IN
              IF base.invoiceStatus = <<>>
              THEN Throws("TypeError")
              ELSE IF LatestState(base) = p.state
                   THEN toFail("SAME_INVOICE_STATE")
                   ELSE toPass

\* [stringSpec(), 'description', new ValidationError('description:')]: the
\* property is validated when the request carries it; a string of length zero
\* fails, with the trace in front of the error.
descriptionSpec(p) ==
    IF p.description = Absent THEN toPass
    ELSE IF Len(p.description) = 0
         THEN toFail("description: ZERO_LENGTH_STRING")
         ELSE toPass

\* The rules of the specification, in the order of the list.
updateInvoiceRequestSpec == << "description", "differentState", "existsAndNotDeleted" >>

\* The result of one rule on the invoice table as it is when the rule runs.
Rule(name, invoices, p) ==
    CASE name = "description" -> descriptionSpec(p)
      [] name = "differentState" -> differentState(invoices, p)
      [] name = "existsAndNotDeleted" -> existsAndNotDeleted(invoices, p)

\* validateSpecification awaits the rules in order: a call holds its target
\* and the position of the rule it runs next.
Validating(p, rule) == [kind |-> "validate", p |-> p, rule |-> rule]

\* What a step of validateSpecification gives: the failure (or exception) of
\* the rule, which ends the call, or a pass, which ends it after the last rule.
Returns(rule, result) ==
    result.kind # "pass" \/ rule = Len(updateInvoiceRequestSpec)

\* The status histories of an invoice: created, then no or one more status.
StatusHistories ==
    { <<"CREATED">> } \cup { <<"CREATED", s>> : s \in InvoiceState }

InvoiceIds == {1, 2}

\* The invoice whose statuses other requests change.
UpdatedInvoiceIds == {1}

\* The update requests, with or without a state and a description.
UpdateInvoiceParams ==
    [invoiceId : InvoiceIds,
     state : InvoiceState \cup {Absent},
     description : {Absent, "", "Paid in cash"}]

\* The step of a validation: the rule that ran, its target and the invoice
\* table it ran on.
RuleRun(held) ==
    [kind |-> "invoice", invoices |-> invoice, p |-> held.p,
     rule |-> updateInvoiceRequestSpec[held.rule]]

\* Another request creates an invoice, with its first status.
SaveInvoice(id) ==
    /\ \A i \in invoice : i.id # id
    /\ invoice' = invoice \cup { [id |-> id, invoiceStatus |-> <<"CREATED">>] }
    /\ last' = Op("saveInvoice", Undefined, None)
    /\ UNCHANGED <<ledger, balance, inflight, staged>>

\* Another request gives an invoice a further status.
SaveInvoiceStatus(id, state) ==
    /\ \E i \in invoice :
         /\ i.id = id
         /\ Append(i.invoiceStatus, state) \in StatusHistories
         /\ invoice' = (invoice \ {i})
                          \cup { [i EXCEPT !.invoiceStatus = Append(i.invoiceStatus, state)] }
    /\ last' = Op("saveInvoiceStatus", Undefined, None)
    /\ UNCHANGED <<ledger, balance, inflight, staged>>

\* Another request removes an invoice with its statuses.
RemoveInvoice(id) ==
    /\ \E i \in invoice : i.id = id /\ invoice' = invoice \ {i}
    /\ last' = Op("removeInvoice", Undefined, None)
    /\ UNCHANGED <<ledger, balance, inflight, staged>>

\* verifyUpdateInvoiceRequest(p) calls validateSpecification, which starts at
\* the first rule of the specification.
VerifyUpdateInvoiceRequest(c, p) ==
    /\ Idle(c)
    /\ inflight' = [inflight EXCEPT ![c] = Validating(p, 1)]
    /\ UNCHANGED <<ledger, balance, staged, invoice, last>>

\* validateSpecification runs the rule the call has come to, on the invoice
\* table as it is now. A failure or an exception of the rule is the result of
\* verifyUpdateInvoiceRequest, and so is the pass of the last rule: the call
\* returns. After the pass of an earlier rule the call awaits the next rule.
ValidateSpecification(c) ==
    /\ inflight[c].kind = "validate"
    /\ LET held == inflight[c]
           result == Rule(updateInvoiceRequestSpec[held.rule], invoice, held.p)
       IN IF Returns(held.rule, result)
          THEN /\ inflight' = [inflight EXCEPT ![c] = None]
               /\ last' = Op("verifyUpdateInvoiceRequest", RuleRun(held), result)
          ELSE /\ inflight' = [inflight EXCEPT ![c] = Validating(held.p, held.rule + 1)]
               /\ last' = Op(updateInvoiceRequestSpec[held.rule], RuleRun(held), result)
    /\ UNCHANGED <<ledger, balance, staged, invoice>>

\* One validation at a time, while other requests create invoices 1 and 2,
\* give invoice 1 a further status and remove invoices.
NextInvoices ==
    \/ \E p \in UpdateInvoiceParams : VerifyUpdateInvoiceRequest(1, p)
    \/ ValidateSpecification(1)
    \/ \E id \in InvoiceIds : SaveInvoice(id)
    \/ \E id \in UpdatedInvoiceIds, state \in InvoiceState : SaveInvoiceStatus(id, state)
    \/ \E id \in InvoiceIds : RemoveInvoice(id)

SpecInvoices == Init /\ [][NextInvoices]_vars

\* Transaction.find({ where: { id: In(ids) }, relations }): the transactions
\* whose id is listed, each once, in the order of their ids.
RECURSIVE FindTransactions(_, _)
FindTransactions(transactions, ids) ==
    LET found == { t \in transactions : \E k \in DOMAIN ids : ids[k] = t.id } IN
    IF found = {} THEN <<>>
    ELSE LET t == CHOOSE x \in found : \A o \in found : x.id <= o.id IN
         <<t>> \o FindTransactions(transactions \ {t}, ids)

\* transactions.filter(f): the elements that satisfy owned-by-another.
RECURSIVE NotOwnedByUser(_, _)
NotOwnedByUser(transactions, forId) ==
    IF transactions = <<>> THEN <<>>
    ELSE (IF Head(transactions).from # forId THEN <<Head(transactions)>> ELSE <<>>)
           \o NotOwnedByUser(Tail(transactions), forId)

\* The rows pushed by the innermost forEach: the ids of the rows of a list
\* whose invoice is not null.
RECURSIVE InvoicedRows(_)
InvoicedRows(rows) ==
    IF rows = <<>> THEN <<>>
    ELSE (IF Head(rows).invoice # NULL THEN <<Head(rows).id>> ELSE <<>>)
           \o InvoicedRows(Tail(rows))

RECURSIVE InvoicedOfSubTransactions(_)
InvoicedOfSubTransactions(subTransactions) ==
    IF subTransactions = <<>> THEN <<>>
    ELSE InvoicedRows(Head(subTransactions).subTransactionRows)
           \o InvoicedOfSubTransactions(Tail(subTransactions))

RECURSIVE AlreadyInvoiced(_)
AlreadyInvoiced(transactions) ==
    IF transactions = <<>> THEN <<>>
    ELSE InvoicedOfSubTransactions(Head(transactions).subTransactions)
           \o AlreadyInvoiced(Tail(transactions))

Range(s) == { s[k] : k \in DOMAIN s }

\* A validator that checks the ids before the owners.
validTransactionIdsCountFirst(transactions, p) ==
    IF ~p.transactionIDs.defined THEN toPass
    ELSE LET found == FindTransactions(transactions, p.transactionIDs.list)
             alreadyInvoiced == AlreadyInvoiced(found)
         IN  IF Len(found) # Len(p.transactionIDs.list)
             THEN toFail("INVALID_TRANSACTION_IDS")
             ELSE IF Len(NotOwnedByUser(found, p.forId)) # 0
                  THEN toFail("INVALID_TRANSACTION_OWNER")
                  ELSE IF Len(alreadyInvoiced) # 0
                       THEN toFailListing("SUBTRANSACTION_ALREADY_INVOICED",
                                          Range(alreadyInvoiced))
                       ELSE toPass

validTransactionIds(transactions, p) ==
    IF ~p.transactionIDs.defined THEN toPass
    ELSE LET found == FindTransactions(transactions, p.transactionIDs.list)
             alreadyInvoiced == AlreadyInvoiced(found)
         IN  IF Len(NotOwnedByUser(found, p.forId)) # 0
             THEN toFail("INVALID_TRANSACTION_OWNER")
             ELSE IF Len(found) # Len(p.transactionIDs.list)
                  THEN toFail("INVALID_TRANSACTION_IDS")
                  ELSE IF Len(alreadyInvoiced) # 0
                       THEN toFailListing("SUBTRANSACTION_ALREADY_INVOICED",
                                          Range(alreadyInvoiced))
                       ELSE toPass

\* The transaction tables: transaction 1 with one sub-transaction of two rows,
\* and no transaction 2 or transaction 2 of user 1 with one sub-transaction of
\* one row; a row has no invoice or is on invoice 7.
InvoiceOfRow == {NULL, 7}

TransactionOne ==
    { [id |-> 1, from |-> u,
       subTransactions |-> << [subTransactionRows |->
                                 << [id |-> 11, invoice |-> a], [id |-> 12, invoice |-> b] >>] >>]
      : u \in user, a \in InvoiceOfRow, b \in InvoiceOfRow }

TransactionTwo ==
    { [id |-> 2, from |-> u,
       subTransactions |-> << [subTransactionRows |-> << [id |-> 21, invoice |-> a] >>] >>]
      : u \in {1}, a \in InvoiceOfRow }

TransactionTables ==
    { {t} : t \in TransactionOne } \cup { {t, o} : t \in TransactionOne, o \in TransactionTwo }

\* The lists of ids of a request: none, empty, one or two ids, an id that is
\* listed twice, an id of no transaction (3).
NoTransactionIDs == [defined |-> FALSE, list |-> <<>>]

TransactionIDs ==
    {NoTransactionIDs}
      \cup { [defined |-> TRUE, list |-> l]
             : l \in { <<>>, <<1>>, <<3>>, <<1, 2>>, <<2, 1>>, <<1, 1>>, <<1, 3>> } }

BaseInvoice == [forId : user, transactionIDs : TransactionIDs]

ValidTransactionIds(transactions, p) ==
    /\ last' = Op("validTransactionIds",
                   [kind |-> "invoice", transactions |-> transactions, p |-> p],
                   validTransactionIds(transactions, p))
    /\ UNCHANGED <<invoice, ledger, balance, inflight, staged>>

NextTransactionIds ==
    \E transactions \in TransactionTables, p \in BaseInvoice :
        ValidTransactionIds(transactions, p)

SpecTransactionIds == Init /\ [][NextTransactionIds]_vars

----------------------------------------------------------------------------
(* ProductService.getProducts: one query over the product tables, which the
   call reads and does not write; the tables are given with the call, and so
   is the reading the database engine gives the sub-query of the third filter. *)

\* builder.where(condition): sets the WHERE of the query to the condition, in
\* place of the conditions set before.
where(wheres, condition) == <<condition>>

\* The third filter is product.id NOT IN ((SELECT updatedproduct.product FROM
\* updated_product)): getQuery() gives the sub-query in parentheses, and the
\* condition puts it in the parentheses of NOT IN. The database engine reads
\* the inner parentheses as the rows of the sub-query, or as a scalar
\* sub-query, whose value is its first row and NULL without a row.
SetReading == [as |-> "set", first |-> NULL]

ScalarReadings(tables) ==
    IF tables.updated_product = {}
    THEN { [as |-> "scalar", first |-> NULL] }
    ELSE { [as |-> "scalar", first |-> v] : v \in tables.updated_product }

\* The readings of the sub-query an engine can give; a call without the third
\* filter has no sub-query to read.
SubQueryReadings(tables, returnUpdated) ==
    IF returnUpdated THEN {SetReading} ELSE {SetReading} \cup ScalarReadings(tables)

\* A row of the joined tables satisfies a condition. NOT IN over the rows of
\* the sub-query holds for an id that is none of them; NOT IN (NULL) holds for
\* no row, and NOT IN (v) for the ids other than v.
Satisfies(row, condition, tables) ==
    CASE condition.on = "owner" -> row.owner = condition.value
      [] condition.on = "productId" -> row.id = condition.value
      [] condition.on = "notUpdated" ->
             IF condition.value.as = "set"
             THEN row.id \notin tables.updated_product
             ELSE condition.value.first # NULL /\ row.id # condition.value.first

\* from product inner join product_revision on product.id = productrevision.product
\* and product.currentRevision = productrevision.revision (the joins with the
\* owner and the category match one row each).
ProductJoin(tables) ==
    { p \in tables.product :
        \E r \in tables.product_revision :
            r.product = p.id /\ r.revision = p.currentRevision }

\* getRawMany, then parseRawProduct of every row.
ProductResponses(tables, wheres) ==
    { [id |-> p.id, owner |-> p.owner, revision |-> p.currentRevision]
      : p \in { q \in ProductJoin(tables) :
                  \A k \in DOMAIN wheres : Satisfies(q, wheres[k], tables) } }

getProducts(tables, owner, returnUpdated, productId, reading) ==
    LET w0 == <<>>
        w1 == IF owner # NULL
              THEN where(w0, [on |-> "owner", value |-> owner]) ELSE w0
        w2 == IF productId # NULL
              THEN where(w1, [on |-> "productId", value |-> productId]) ELSE w1
        w3 == IF ~returnUpdated
              THEN where(w2, [on |-> "notUpdated", value |-> reading]) ELSE w2
    IN  ProductResponses(tables, w3)

ProductIds == {1, 2}

\* The product tables: two products, each of one of the users; product 1 has
\* a current revision (1), product 2 has one or none (NULL); every product has
\* revision 1; any of them may have an updated product pending.
ProductTables ==
    { [product |-> { [id |-> i, owner |-> o[i], currentRevision |-> c[i]] : i \in ProductIds },
       product_revision |-> { [product |-> i, revision |-> 1] : i \in ProductIds },
       updated_product |-> u]
      : o \in [ProductIds -> user], c \in { f \in [ProductIds -> {NULL, 1}] : f[1] = 1 }, u \in SUBSET ProductIds }

GetProducts(tables, owner, returnUpdated, productId, reading) ==
    /\ last' = Op("getProducts",
                   [kind |-> "products", tables |-> tables, owner |-> owner,
                    returnUpdated |-> returnUpdated, productId |-> productId,
                    reading |-> reading],
                   [kind |-> "products",
                    products |-> getProducts(tables, owner, returnUpdated, productId,
                                             reading)])
    /\ UNCHANGED <<invoice, ledger, balance, inflight, staged>>

NextProducts ==
    \E tables \in ProductTables, owner \in user \cup {NULL}, returnUpdated \in BOOLEAN,
       productId \in ProductIds \cup {3, NULL} :
        \E reading \in SubQueryReadings(tables, returnUpdated) :
            GetProducts(tables, owner, returnUpdated, productId, reading)

SpecProducts == Init /\ [][NextProducts]_vars

----------------------------------------------------------------------------
(* The exact balance of a subject, from the ledger rows alone *)

\* The price of the product revision a sub-transaction row references.
PriceOf(str) ==
    (CHOOSE pr \in product_revision :
        pr.revision = str.productRevision /\ pr.productId = str.productProduct).priceInclVat

SubTransactionOf(str) == CHOOSE st \in sub_transaction : st.id = str.subTransactionId

TransactionOf(st) == CHOOSE t \in transaction : t.id = st.transactionId

\* Every delta of subject x: one per sub-transaction row x pays, one per row x
\* receives, one per transfer x sends and one per transfer x receives; ledger
\* is the table of the entry and id its ledger id.
DeltasOf(x) ==
    { [ledger |-> "transaction", id |-> SubTransactionOf(str).transactionId,
       part |-> <<"payer", str.id>>, amount |-> 0 - str.amount * PriceOf(str)]
      : str \in { r \in sub_transaction_row :
                    TransactionOf(SubTransactionOf(r)).fromId = x } }
    \cup
    { [ledger |-> "transaction", id |-> SubTransactionOf(str).transactionId,
       part |-> <<"recipient", str.id>>, amount |-> str.amount * PriceOf(str)]
      : str \in { r \in sub_transaction_row : SubTransactionOf(r).toId = x } }
    \cup
    { [ledger |-> "transfer", id |-> t.id, part |-> <<"from", t.id>>,
       amount |-> 0 - t.amount]
      : t \in { r \in transfer : r.fromId = x } }
    \cup
    { [ledger |-> "transfer", id |-> t.id, part |-> <<"to", t.id>>, amount |-> t.amount]
      : t \in { r \in transfer : r.toId = x } }

RECURSIVE Total(_)
Total(deltas) ==
    IF deltas = {} THEN 0
    ELSE LET d == CHOOSE d \in deltas : TRUE
         IN d.amount + Total(deltas \ {d})

\* The deltas of x with transaction id in (tlo, thi] and transfer id in (flo, fhi].
DeltasBetween(x, tlo, thi, flo, fhi) ==
    { d \in DeltasOf(x) :
        \/ d.ledger = "transaction" /\ tlo < d.id /\ d.id <= thi
        \/ d.ledger = "transfer" /\ flo < d.id /\ d.id <= fhi }

ExactBalance(x) == Total(DeltasOf(x))

\* The amount getBalance(x) returns, and the amount it returns when the
\* balance table is table.
Read(x) == getBalance(x).response.amount

ReadOn(table, x) == getBalanceOn(table, x).response.amount

\* The subjects an updateBalances call with this argument covers.
Covers(arg, x) == arg.kind = "array" => x \in arg.ids

----------------------------------------------------------------------------
(* Claims *)

\* C1: in every state reached by appends, refreshes and invalidations,
\* getBalance(x) returns for every subject x exactly the sum of all deltas of x
\* in the ledger, with a snapshot, a stale snapshot or none.
C1_ReadIsExact ==
    \A x \in user :
        /\ getBalance(x).kind = "response"
        /\ Read(x) = ExactBalance(x)

\* A read of a subject whose snapshot is stale: rows of the subject were
\* appended after the refresh that wrote it.
C1_Witness ==
    /\ last.op = "getBalance"
    /\ \E x \in last.arg.ids, b \in balance :
         /\ b.user_id = x
         /\ b.amount # ExactBalance(x)
         /\ last.result.response.amount = ExactBalance(x)

\* C2 (I2): every stored snapshot row holds the sum of its subject's
\* transaction deltas up to lastTransaction plus its transfer deltas up to
\* lastTransfer, on the current ledger.
C2_BoundaryCorrect ==
    \A b \in balance :
        b.amount = Total(DeltasBetween(b.user_id, 0, b.lastTransaction, 0, b.lastTransfer))

\* A snapshot that is behind the ledger in both tables and holds a nonzero amount.
C2_Witness ==
    \E b \in balance :
        /\ b.amount # 0
        /\ b.amount # ExactBalance(b.user_id)
        /\ b.lastTransaction > 0
        /\ b.lastTransaction < LastIds.transactionMax

\* C3 (cache transparency): right after a clearBalanceCache, for some subjects
\* or for all, getBalance returns for every subject the amount it returned on
\* the balance table as it was right before the clear.
C3_CacheTransparent ==
    last.op = "clearBalanceCache"
        => \A x \in user : Read(x) = ReadOn(last.before, x)

\* A clear that deleted the snapshot of a subject with a nonzero balance.
C3_Witness ==
    /\ last.op = "clearBalanceCache"
    /\ \E b \in last.before :
         /\ BalanceOf(balance, b.user_id) = {}
         /\ b.amount # 0
         /\ ExactBalance(b.user_id) # 0

\* C4 (idempotence): an updateBalances call that repeats the call before it,
\* with the same argument and no append in between, leaves the balance table
\* as the first call left it.
C4_RefreshIdempotent ==
    (last.op = "updateBalances" /\ last.again) => balance = last.before

\* A repeated refresh over a table that holds nonzero snapshots.
C4_Witness ==
    /\ last.op = "updateBalances"
    /\ last.again
    /\ \E b \in balance : b.amount # 0 /\ Covers(last.arg, b.user_id)

\* C5 (I1): also when refreshes overlap, a snapshot written over an earlier
\* snapshot of the same subject carries checkpoints that are not smaller.
C5_CheckpointsMonotonic ==
    last.op = "updateBalances"
        => \A old \in last.before, new \in balance :
             old.user_id = new.user_id
                 => /\ new.lastTransaction >= old.lastTransaction
                    /\ new.lastTransfer >= old.lastTransfer

\* C6: a refresh that follows an earlier refresh of the same subject, without
\* overlap (it captured its maxima no earlier than the refresh that wrote the
\* row it finds), writes a lastTransaction that is greater if a transaction was
\* appended between the two captures and equal otherwise, likewise
\* lastTransfer, and an amount that includes the subject's newly appended deltas.
C6_LaterRefreshAbsorbs ==
    (last.op = "updateBalances" /\ last.result.kind = "maxima")
        => \A old \in last.before :
             (/\ Covers(last.arg, old.user_id)
              /\ old.lastTransaction <= last.result.transactionMax
              /\ old.lastTransfer <= last.result.transferMax)
                 => \E new \in balance :
                      /\ new.user_id = old.user_id
                      /\ IF \E t \in transaction :
                              t.id > old.lastTransaction /\ t.id <= last.result.transactionMax
                         THEN new.lastTransaction > old.lastTransaction
                         ELSE new.lastTransaction = old.lastTransaction
                      /\ IF \E t \in transfer :
                              t.id > old.lastTransfer /\ t.id <= last.result.transferMax
                         THEN new.lastTransfer > old.lastTransfer
                         ELSE new.lastTransfer = old.lastTransfer
                      /\ new.amount = old.amount
                           + Total(DeltasBetween(old.user_id,
                                                 old.lastTransaction, new.lastTransaction,
                                                 old.lastTransfer, new.lastTransfer))

\* A later refresh that absorbed a transaction of the subject appended since
\* the earlier one, with no transfer appended in between.
C6_Witness ==
    /\ last.op = "updateBalances"
    /\ \E old \in last.before, new \in balance :
         /\ new.user_id = old.user_id
         /\ new.lastTransaction > old.lastTransaction
         /\ new.lastTransfer = old.lastTransfer
         /\ old.lastTransfer > 0
         /\ new.amount # old.amount

\* C7 (I3): a refresh whose REPLACE runs after ledger entries were appended
\* behind its captured maxima writes, for every subject it covers, the sum of
\* the deltas up to the captured maxima only; the later entries stay pending,
\* so that getBalance still returns the exact balance.
C7_LaterEntriesStayPending ==
    last.op = "updateBalances"
        => \A x \in user :
             (Covers(last.arg, x)
                /\ DeltasBetween(x, 0, last.result.transactionMax,
                                 0, last.result.transferMax) # {})
                 => /\ \E b \in balance :
                         /\ b.user_id = x
                         /\ b.lastTransaction = last.result.transactionMax
                         /\ b.lastTransfer = last.result.transferMax
                         /\ b.amount = Total(DeltasBetween(x, 0, last.result.transactionMax,
                                                           0, last.result.transferMax))
                    /\ Read(x) = ExactBalance(x)

\* A refresh has replaced the snapshot of a subject of which an entry was
\* appended after the refresh captured its maxima.
C7_Witness ==
    /\ last.op = "updateBalances"
    /\ \E b \in balance : \E d \in DeltasOf(b.user_id) :
         /\ Covers(last.arg, b.user_id)
         /\ b.lastTransaction = last.result.transactionMax
         /\ b.lastTransfer = last.result.transferMax
         /\ d.ledger = "transaction"
         /\ d.id > last.result.transactionMax
         /\ b.amount # 0

\* C8: with concurrent ledger writers, whose entries become visible in
\* another order than their ids, every getBalance counts the delta of every
\* visible ledger entry exactly once.
C8_NoLossUnderWriters ==
    \A x \in user : Read(x) = ExactBalance(x)

\* The aggregate of x in the call that returned last: its deltas up to the
\* maxima the call captured.
AggregateDeltas(x) ==
    DeltasBetween(x, 0, last.result.transactionMax, 0, last.result.transferMax)

\* C9 as stated: after updateBalances with a subject set, every requested
\* subject has a snapshot row with its aggregate and the captured maxima,
\* also a subject with no ledger rows at all.
C9_EveryRequestedHasRow ==
    (last.op = "updateBalances" /\ last.arg.kind = "array")
        => \A x \in last.arg.ids :
             \E b \in balance :
                 /\ b.user_id = x
                 /\ b.amount = Total(AggregateDeltas(x))
                 /\ b.lastTransaction = last.result.transactionMax
                 /\ b.lastTransfer = last.result.transferMax

\* C9 amended: after updateBalances with a subject set, every requested
\* subject that has a ledger delta up to the captured maxima has a snapshot row
\* with its aggregate, also when the aggregate is zero, and the captured
\* maxima; for a requested subject without such a delta no row is written.
C9_RequestedWithDeltasHasRow ==
    (last.op = "updateBalances" /\ last.arg.kind = "array")
        => \A x \in last.arg.ids :
             IF AggregateDeltas(x) # {}
             THEN \E b \in balance :
                      /\ b.user_id = x
                      /\ b.amount = Total(AggregateDeltas(x))
                      /\ b.lastTransaction = last.result.transactionMax
                      /\ b.lastTransfer = last.result.transferMax
             ELSE BalanceOf(balance, x) = BalanceOf(last.before, x)

\* A requested subject whose deltas sum to zero has a row of amount zero.
C9_Witness ==
    /\ last.op = "updateBalances"
    /\ last.arg.kind = "array"
    /\ \E x \in last.arg.ids, b \in balance :
         /\ b.user_id = x
         /\ DeltasOf(x) # {}
         /\ b.amount = 0

\* C10 (P2): right after a refresh that covers subject x, with no append since
\* the refresh captured its maxima, getBalance(x) returns exactly the amount
\* cached in x's snapshot (zero without a snapshot) and counts no pending delta.
C10_ReadEqualsCached ==
    (/\ last.op = "updateBalances"
     /\ last.result.transactionMax = LastIds.transactionMax
     /\ last.result.transferMax = LastIds.transferMax)
        => \A x \in user :
             Covers(last.arg, x)
                 => /\ Read(x) = SumAmount(BalanceOf(balance, x))
                    /\ \A r \in BalancesQuery(balance, Array({x})) : r.count = 0

\* A refresh has just written a nonzero snapshot for a covered subject.
C10_Witness ==
    /\ last.op = "updateBalances"
    /\ \E b \in balance :
         /\ Covers(last.arg, b.user_id)
         /\ b.amount # 0
         /\ Read(b.user_id) = b.amount

\* C11: getBalance and getBalances never write: after either call the balance
\* table holds the rows, amounts and checkpoints it held before, and the
\* ledger is unchanged.
C11_ReadsWriteNothing ==
    last.op \in {"getBalance", "getBalances"}
        => /\ balance = last.before
           /\ ledger = last.ledgerBefore

\* A read of a subject whose stale snapshot differs from the amount returned:
\* the read had something to store.
C11_Witness ==
    /\ last.op = "getBalance"
    /\ \E x \in last.arg.ids, b \in balance :
         /\ b.user_id = x
         /\ last.result.response.amount # b.amount
         /\ b.lastTransaction < LastIds.transactionMax

\* C12: clearBalanceCache with an id or a set of ids deletes the rows of
\* exactly those subjects, whatever the id, and with no argument all rows; it
\* changes no ledger row.
C12_ClearDeletesExactly ==
    last.op = "clearBalanceCache"
        => /\ balance = IF last.arg.kind = "undefined"
                        THEN {}
                        ELSE { b \in last.before : b.user_id \notin last.arg.ids }
           /\ ledger = last.ledgerBefore

\* C14: getBalances called with an empty subject set returns an empty result
\* and raises no error.
C14_EmptySetEmptyResult ==
    (last.op = "getBalances" /\ last.arg = Array({}))
        => /\ last.result.kind = "responses"
           /\ last.result.responses = {}

\* C13: for a subject with no ledger history and no snapshot, also on an
\* empty ledger, getBalance returns the amount 0 and raises no error.
C13_NoHistoryIsZero ==
    \A x \in user :
        (DeltasOf(x) = {} /\ BalanceOf(balance, x) = {})
            => /\ getBalance(x).kind = "response"
               /\ Read(x) = 0

\* A read of a subject without history or snapshot returned 0 while the
\* ledger holds entries of another subject.
C13_Witness ==
    /\ last.op = "getBalance"
    /\ \E x \in last.arg.ids :
         /\ DeltasOf(x) = {}
         /\ BalanceOf(balance, x) = {}
         /\ last.result.kind = "response"
         /\ last.result.response.amount = 0
    /\ transfer # {}

\* The (subject, amount) pairs a set of query rows attributes for transfer t.
TransferPairs(moneys, t) ==
    { <<m.id, m.amount>> : m \in { r \in moneys : r.key[1] \in {"from", "to"}
                                                    /\ r.key[2] = t.id } }

\* The rows of transaction t, and the rows of t in sub-transactions for x.
RowsOf(t) ==
    { str \in sub_transaction_row : SubTransactionOf(str).transactionId = t.id }

OwnRowsOf(t, x) == { str \in RowsOf(t) : SubTransactionOf(str).toId = x }

\* Quantity times the unit price of the referenced revision, per row.
Valued(rows) == { [row |-> str.id, amount |-> str.amount * PriceOf(str)] : str \in rows }

\* What a set of query rows attributes to subject x in a role for transaction t.
Attributed(moneys, role, t, x) ==
    SumAmount({ m \in moneys : m.key[1] = role /\ m.key[2] = t.id /\ m.id = x })

\* C15: for every transaction the payer is attributed minus the sum of
\* quantity x unit price over all rows of all its sub-transactions, and each
\* recipient plus that sum over the rows of its own sub-transactions, in the
\* refresh aggregate and in the live pending sum alike.
C15_TransactionDeltas ==
    \A t \in transaction : \A x \in user :
        \A moneys \in { UpdateMoneys(Undefined, LastIds.transactionMax, LastIds.transferMax),
                        PendingMoneys({}, Undefined) } :
            /\ Attributed(moneys, "payer", t, x)
                 = (IF t.fromId = x THEN 0 - Total(Valued(RowsOf(t))) ELSE 0)
            /\ Attributed(moneys, "recipient", t, x) = Total(Valued(OwnRowsOf(t, x)))

\* A transaction with two recipients, one of them with two rows: the second
\* recipient's share is less than what the payer pays; and a transaction of 3
\* units at 150 gives its payer -450 and its recipient +450.
C15_Witness ==
    /\ \E t \in transaction : \E x \in user :
         /\ Total(Valued(OwnRowsOf(t, x))) > 0
         /\ Total(Valued(OwnRowsOf(t, x))) < Total(Valued(RowsOf(t)))
    /\ \E t \in transaction : \E x \in user :
         /\ t.fromId # x
         /\ Attributed(PendingMoneys({}, Undefined), "payer", t, t.fromId) = 0 - 450
         /\ Attributed(PendingMoneys({}, Undefined), "recipient", t, x) = 450

\* C17 (price lock): adding a newer revision with another price changes no
\* getBalance result and not the rows an unfiltered refresh selects; a refresh
\* that runs when the product has several revisions writes the amounts
\* computed with the price of the revision each row references.
C17_PriceLocked ==
    /\ last.op = "addProductRevision"
         => /\ \A x \in user : getBalance(x) = last.result.reads[x]
            /\ UpdateSelect(Undefined, LastIds.transactionMax, LastIds.transferMax)
                 = last.result.select
    /\ (last.op = "updateBalances" /\ Cardinality(product_revision) > 1)
         => \A b \in balance :
                Covers(last.arg, b.user_id)
                    => b.amount = Total(DeltasBetween(b.user_id, 0, b.lastTransaction,
                                                      0, b.lastTransfer))

\* A refresh has run after the price changed: a sold row references a revision
\* that is no longer current and whose price differs from the current one.
C17_Witness ==
    /\ last.op = "updateBalances"
    /\ \E str \in sub_transaction_row, b \in balance :
         /\ str.productRevision # CurrentRevision.revision
         /\ PriceOf(str) # CurrentRevision.priceInclVat
         /\ b.amount # 0

\* C19: when updateBalances fails in the maxima query or in the
\* aggregate-and-replace statement, the caller gets the error and the balance
\* table is exactly as before the call.
C19_FailedRefreshWritesNothing ==
    (last.op = "updateBalances" /\ last.result.kind = "error")
        => balance = last.before

\* The REPLACE INTO of a refresh failed while it had rows to store that the
\* table does not hold.
C19_Witness ==
    /\ last.op = "updateBalances"
    /\ last.result.kind = "error"
    /\ last.result.statement = "replace"
    /\ balance # {}
    /\ \E r \in UpdateSelect(last.arg, LastIds.transactionMax, LastIds.transferMax) :
         r \notin balance

\* C16: a transfer of amount a contributes -a to its source if it has one and
\* +a to its destination if it has one, in the refresh (with or without a
\* subject set) and in the read; a missing side contributes to no subject and
\* refresh writes no snapshot row with a null subject id.
C16_TransferDeltas ==
    /\ \A t \in transfer :
         LET expected ==
                 (IF t.fromId # NULL THEN { <<t.fromId, 0 - t.amount>> } ELSE {})
                   \cup (IF t.toId # NULL THEN { <<t.toId, t.amount>> } ELSE {})
         IN /\ TransferPairs(UpdateMoneys(Undefined, LastIds.transactionMax,
                                          LastIds.transferMax), t) = expected
            /\ TransferPairs(UpdateMoneys(Array(user), LastIds.transactionMax,
                                          LastIds.transferMax), t) = expected
            /\ { p \in TransferPairs(PendingMoneys({}, Undefined), t) : p[1] \in user }
                 = expected
    /\ \A b \in balance : b.user_id \in user

\* A refresh without subject set has run over a ledger that holds a deposit
\* (no source) and wrote the row of its destination.
C16_Witness ==
    /\ last.op = "updateBalances"
    /\ last.arg = Undefined
    /\ \E t \in transfer, b \in balance :
         /\ t.fromId = NULL
         /\ b.user_id = t.toId
         /\ b.amount = t.amount

\* C18 (conservation): when every transfer has a source and a destination,
\* right after updateBalances() without filter the amounts getBalances()
\* returns sum to zero over all subjects, and so do the cached amounts of all
\* snapshot rows.
C18_Conservation ==
    (/\ last.op = "updateBalances"
     /\ last.arg = Undefined
     /\ \A t \in transfer : t.fromId # NULL /\ t.toId # NULL)
        => /\ getBalances(Undefined).kind = "responses"
           /\ SumAmount(getBalances(Undefined).responses) = 0
           /\ SumAmount(balance) = 0

\* C20 (lifecycle): a snapshot row appears or changes only in a refresh, which
\* writes the whole row (the aggregate up to the maxima and both maxima, not
\* one field and not the old amount plus something); a row disappears only in
\* a clearBalanceCache.
C20_SnapshotLifecycle ==
    /\ \A b \in balance \ last.before :
         /\ last.op = "updateBalances"
         /\ Covers(last.arg, b.user_id)
         /\ b.lastTransaction = last.result.transactionMax
         /\ b.lastTransfer = last.result.transferMax
         /\ b.amount = Total(DeltasBetween(b.user_id, 0, last.result.transactionMax,
                                           0, last.result.transferMax))
    /\ \A old \in last.before :
         BalanceOf(balance, old.user_id) = {} => last.op = "clearBalanceCache"

\* The refresh inside a getAllBalances call, which now awaits its select, has
\* replaced an existing row: the amount and a checkpoint differ from the row
\* before.
C20_Witness ==
    /\ last.op = "updateBalances"
    /\ \E c \in Callers : inflight[c].kind = "select" /\ inflight[c].params = last.arg
    /\ \E old \in last.before, b \in balance :
         /\ b.user_id = old.user_id
         /\ b.amount # old.amount
         /\ \/ b.lastTransaction # old.lastTransaction
            \/ b.lastTransfer # old.lastTransfer

\* C21: when refreshes of the same subject race on the replace, each stored
\* row of a subject the last replace selected is, in all three fields, the row
\* that replace computed from its captured maxima, and every stored row holds
\* the sum of its subject's deltas up to its own checkpoints (I2).
C21_LastWriterWins ==
    /\ last.op = "updateBalances"
         => LET rows == UpdateSelect(last.result.params, last.result.transactionMax,
                                     last.result.transferMax)
            IN \A b \in balance :
                   (\E r \in rows : r.user_id = b.user_id) => b \in rows
    /\ \A b \in balance :
           b.amount = Total(DeltasBetween(b.user_id, 0, b.lastTransaction,
                                          0, b.lastTransfer))

\* The refresh that captured the smaller maxima replaced last: it overwrote the
\* row the other refresh had written, with another amount.
C21_Witness ==
    /\ last.op = "updateBalances"
    /\ \E old \in last.before, b \in balance :
         /\ b.user_id = old.user_id
         /\ b.amount # old.amount
         /\ \/ b.lastTransaction < old.lastTransaction
            \/ b.lastTransfer < old.lastTransfer

\* C22: in every state and for every set S of existing subjects (the empty
\* set too), getBalances(S) returns exactly one entry per subject of S, each
\* with the amount getBalance returns for it; getBalances() returns one entry
\* per existing subject with the same amounts.
C22_BulkEqualsSingle ==
    \A ids \in ReadArgs :
        LET r == getBalances(ids)
            S == IF IdsGiven(ids) THEN ids.ids ELSE user
        IN /\ r.kind = "responses"
           /\ { b.id : b \in r.responses } = S
           /\ Cardinality(r.responses) = Cardinality(S)
           /\ \A b \in r.responses : b.amount = Read(b.id)

\* The entries of the map a getAllBalances call returned for subject x.
EntriesOf(result, x) == { e \in result.map : e.id = x }

\* C23: getAllBalances returns a map with, for every existing user in the
\* requested ids (for every user without ids), an entry whose amount is the
\* user's exact ledger balance, the amount getBalance returns, when no entry
\* was appended to the ledger during the call.
C23_AllBalancesExact ==
    (/\ last.op = "getAllBalances"
     /\ last.result.kind = "map"
           => (/\ last.result.transactionMax = LastIds.transactionMax
               /\ last.result.transferMax = LastIds.transferMax))
        => /\ last.result.kind = "map"
           /\ \A x \in user :
                Covers(last.arg, x)
                    => /\ EntriesOf(last.result, x) # {}
                       /\ \A e \in EntriesOf(last.result, x) :
                              e.amount = ExactBalance(x) /\ e.amount = Read(x)

\* C24: the map getAllBalances returns has no entry for an id that is not an
\* existing user, with and without ids, also when ledger rows or a snapshot
\* row reference that id.
C24_NoEntryForNonUser ==
    (last.op = "getAllBalances" /\ last.result.kind = "map")
        => \A e \in last.result.map : e.id \in user

\* C30: getAllBalances(params) changes the balance table as updateBalances(params)
\* does: when it returns, with no append during the call, the table holds what
\* that refresh writes, and every subject in scope with ledger rows has a snapshot
\* with the current ledger maxima as checkpoints and the amount the map holds.
C30_AllBalancesRefreshes ==
    (/\ last.op = "getAllBalances"
     /\ last.result.kind = "map"
           => (/\ last.result.transactionMax = LastIds.transactionMax
               /\ last.result.transferMax = LastIds.transferMax))
        => /\ balance = ReplaceInto(balance,
                            UpdateSelect(last.arg, LastIds.transactionMax,
                                         LastIds.transferMax))
           /\ last.result.kind = "map"
           /\ \A x \in user :
                (Covers(last.arg, x) /\ DeltasOf(x) # {})
                    => \E b \in BalanceOf(balance, x) :
                         /\ b.lastTransaction = LastIds.transactionMax
                         /\ b.lastTransfer = LastIds.transferMax
                         /\ EntriesOf(last.result, x) = { [id |-> x, amount |-> b.amount] }

\* C26: updateBalances with a subject set S leaves the snapshot row, or the
\* absence of a row, of every subject outside S as it was, and no refresh
\* changes the ledger.
C26_RefreshFrame ==
    last.op = "updateBalances"
        => /\ ledger = last.ledgerBefore
           /\ last.arg.kind = "array"
                => \A x \in user \ last.arg.ids :
                       BalanceOf(balance, x) = BalanceOf(last.before, x)

\* A refresh of one subject changed its row while another subject, whose row
\* is behind the ledger or missing although it has deltas, kept what it had.
C26_Witness ==
    /\ last.op = "updateBalances"
    /\ last.arg.kind = "array"
    /\ last.result.kind = "maxima"
    /\ \E x \in last.arg.ids : BalanceOf(balance, x) # BalanceOf(last.before, x)
    /\ \E y \in user \ last.arg.ids :
         /\ DeltasOf(y) # {}
         /\ \A b \in BalanceOf(balance, y) : b.amount # ExactBalance(y)

\* C27: the rows one updateBalances call writes all carry the two maxima the
\* call captured, whichever entries involve the subject; a captured maximum is
\* 0 or the id of a ledger entry and never greater than the ledger maximum at
\* the time of the replace.
C27_SharedCheckpoints ==
    /\ last.op = "updateBalances"
         => /\ \A b \in balance :
                  (Covers(last.arg, b.user_id) /\ DeltasBetween(b.user_id, 0,
                       last.result.transactionMax, 0, last.result.transferMax) # {})
                      => /\ b.lastTransaction = last.result.transactionMax
                         /\ b.lastTransfer = last.result.transferMax
            /\ last.result.transactionMax <= LastIds.transactionMax
            /\ last.result.transferMax <= LastIds.transferMax
    /\ \A c \in Callers :
         inflight[c] # None
             => /\ inflight[c].transactionMax \in {0} \cup { t.id : t \in transaction }
                /\ inflight[c].transferMax \in {0} \cup { t.id : t \in transfer }
                /\ inflight[c].transactionMax <= LastIds.transactionMax
                /\ inflight[c].transferMax <= LastIds.transferMax

\* The ledger grew past the captured transfer maximum before the replace: the
\* call wrote a row with the captured maxima for a subject that has a newer
\* transfer.
C27_Witness ==
    /\ last.op = "updateBalances"
    /\ last.result.transactionMax > 0
    /\ last.result.transferMax < LastIds.transferMax
    /\ \E b \in balance \ last.before :
         /\ b.lastTransaction = last.result.transactionMax
         /\ b.lastTransfer = last.result.transferMax
         /\ \E d \in DeltasOf(b.user_id) :
                d.ledger = "transfer" /\ d.id > last.result.transferMax

\* The implicit snapshot of a subject.
ImplicitSnapshot(x) ==
    [user_id |-> x, amount |-> 0, lastTransaction |-> 0, lastTransfer |-> 0]

\* C28: for a subject without snapshot row the read gives what it gives with
\* the row {amount 0, lastTransaction 0, lastTransfer 0}: it counts every
\* transaction and transfer delta of the subject and adds 0.
C28_AbsentIsZeroSnapshot ==
    \A x \in user :
        BalanceOf(balance, x) = {}
            => /\ getBalance(x).kind = "response"
               /\ Read(x) = ReadOn(balance \cup {ImplicitSnapshot(x)}, x)
               /\ Read(x) = Total(DeltasOf(x))
               /\ { m \in PendingMoneys(balance, Array({x})) : m.id = x }
                    = { m \in PendingMoneys(balance \cup {ImplicitSnapshot(x)}, Array({x}))
                          : m.id = x }

\* A subject without row that has a transaction delta and a transfer delta,
\* while another subject has a row; a read of it has just returned.
C28_Witness ==
    /\ last.op = "getBalance"
    /\ balance # {}
    /\ \E x \in last.arg.ids :
         /\ BalanceOf(balance, x) = {}
         /\ \E d \in DeltasOf(x) : d.ledger = "transaction"
         /\ \E d \in DeltasOf(x) : d.ledger = "transfer"
         /\ last.result.response.amount # 0

\* C29: a getBalance(x) that runs while refreshes, invalidations and ledger
\* appends of other callers go on returns x's exact balance in one ledger state
\* of the time of the call: the read is one query, so that state is the
\* visible ledger at the query.
C29_ReadIsOneLedgerState ==
    last.op = "getBalance"
        => /\ last.result.kind = "response"
           /\ \A x \in last.arg.ids :
                  last.result.response.amount = Total(DeltasOf(x))

\* C25: when a quantity x price product or the sum of a subject's rows is
\* beyond the integers the amount can represent, the read signals an error: an
\* amount it returns is the exact integer sum of the rows, never a wrapped,
\* truncated or rounded one.
C25_OverflowFailsLoudly ==
    (last.op = "getBalance" /\ last.result.kind = "response")
        => last.result.response.amount = BigSum(last.arg.rows)

----------------------------------------------------------------------------
(* Claims on the invoice request validators and on getProducts *)

\* The invoices a request is about, in the invoice table the rule that ran
\* last has read, and their latest state.
InvoicesOf(arg) == { i \in arg.invoices : i.id = arg.p.invoiceId }

MostRecent(i) == i.invoiceStatus[Len(i.invoiceStatus)]

\* C31: once the most recent status of an invoice is DELETED every
\* verifyUpdateInvoiceRequest for it fails with INVOICE_IS_DELETED, and a
\* request whose invoiceId matches no invoice fails with INVALID_INVOICE_ID
\* (the invoice table is the one the call returned on).
C31_DeletedIsAbsorbing ==
    last.op = "verifyUpdateInvoiceRequest"
        => /\ \A i \in InvoicesOf(last.arg) :
                  MostRecent(i) = "DELETED"
                      => last.result = toFail("INVOICE_IS_DELETED")
           /\ InvoicesOf(last.arg) = {}
                  => last.result = toFail("INVALID_INVOICE_ID")

\* C32: verifyUpdateInvoiceRequest for an invoiceId that matches no invoice
\* returns the validation failure INVALID_INVOICE_ID and raises no exception,
\* also when the request carries a state.
C32_MissingInvoiceFailsValidation ==
    (last.op = "verifyUpdateInvoiceRequest" /\ InvoicesOf(last.arg) = {})
        => /\ last.result.kind = "fail"
           /\ last.arg.p.description # ""
                  => last.result.error = "INVALID_INVOICE_ID"

\* C33: differentState fails with SAME_INVOICE_STATE a request whose state is
\* the most recent status state of the invoice, and passes a request that
\* carries no state or a state other than the most recent one.
C33_DifferentState ==
    (last.arg.kind = "invoice" /\ last.arg.rule = "differentState")
        => /\ last.arg.p.state = Absent => last.result = toPass
           /\ \A i \in InvoicesOf(last.arg) :
                  /\ last.arg.p.state = MostRecent(i)
                         => last.result = toFail("SAME_INVOICE_STATE")
                  /\ last.arg.p.state # MostRecent(i) => last.result = toPass

\* A request with the latest state of an invoice that had another state before
\* has failed, and so the check has compared with the latest state.
C33_Witness ==
    /\ last.arg.kind = "invoice"
    /\ last.arg.rule = "differentState"
    /\ \E i \in InvoicesOf(last.arg) :
         /\ Len(i.invoiceStatus) > 1
         /\ MostRecent(i) # i.invoiceStatus[1]
         /\ last.arg.p.state = MostRecent(i)
    /\ last.result = toFail("SAME_INVOICE_STATE")

\* The ids a request lists, the transactions it lists, and the rows of those.
ListedIds(arg) == { arg.p.transactionIDs.list[k] : k \in DOMAIN arg.p.transactionIDs.list }

Listed(arg) == { t \in arg.transactions : t.id \in ListedIds(arg) }

InvoiceRowsOf(t) ==
    UNION { { t.subTransactions[k].subTransactionRows[j]
              : j \in DOMAIN t.subTransactions[k].subTransactionRows }
            : k \in DOMAIN t.subTransactions }

AllExist(arg) == \A id \in ListedIds(arg) : \E t \in arg.transactions : t.id = id

AllOwned(arg) == \A t \in Listed(arg) : t.from = arg.p.forId

InvoicedIds(arg) ==
    { r.id : r \in { x \in UNION { InvoiceRowsOf(t) : t \in Listed(arg) } : x.invoice # NULL } }

NoRepeat(arg) == Cardinality(ListedIds(arg)) = Len(arg.p.transactionIDs.list)

\* C34, as stated: validTransactionIds passes a request with transactionIDs
\* if and only if every listed id is an existing transaction, the payer of every
\* such transaction is forId and none of their rows has an invoice; otherwise
\* it fails with INVALID_TRANSACTION_OWNER (first), INVALID_TRANSACTION_IDS or
\* SUBTRANSACTION_ALREADY_INVOICED listing exactly the invoiced row ids; a
\* request without transactionIDs passes.
C34_ValidTransactionIds ==
    last.op = "validTransactionIds"
        => IF ~last.arg.p.transactionIDs.defined
           THEN last.result = toPass
           ELSE /\ last.result = toPass
                      <=> (AllExist(last.arg) /\ AllOwned(last.arg)
                             /\ InvoicedIds(last.arg) = {})
                /\ ~AllOwned(last.arg)
                      => last.result = toFail("INVALID_TRANSACTION_OWNER")
                /\ (AllOwned(last.arg) /\ ~AllExist(last.arg))
                      => last.result = toFail("INVALID_TRANSACTION_IDS")
                /\ (AllOwned(last.arg) /\ AllExist(last.arg) /\ InvoicedIds(last.arg) # {})
                      => last.result
                           = toFailListing("SUBTRANSACTION_ALREADY_INVOICED",
                                           InvoicedIds(last.arg))

\* C34, amended: the same, for a list that names no id twice; a list that
\* names an id twice fails with INVALID_TRANSACTION_IDS when the transactions
\* it names are the payer's.
C34_ValidDistinctTransactionIds ==
    last.op = "validTransactionIds"
        => IF ~last.arg.p.transactionIDs.defined
           THEN last.result = toPass
           ELSE /\ last.result = toPass
                      <=> (NoRepeat(last.arg) /\ AllExist(last.arg) /\ AllOwned(last.arg)
                             /\ InvoicedIds(last.arg) = {})
                /\ ~AllOwned(last.arg)
                      => last.result = toFail("INVALID_TRANSACTION_OWNER")
                /\ (AllOwned(last.arg) /\ ~(AllExist(last.arg) /\ NoRepeat(last.arg)))
                      => last.result = toFail("INVALID_TRANSACTION_IDS")
                /\ (AllOwned(last.arg) /\ AllExist(last.arg) /\ NoRepeat(last.arg)
                      /\ InvoicedIds(last.arg) # {})
                      => last.result
                           = toFailListing("SUBTRANSACTION_ALREADY_INVOICED",
                                           InvoicedIds(last.arg))

\* A list that names twice the one transaction of the payer, none of whose
\* rows has an invoice, has failed on the ids; so has no list that names its
\* ids once.
C34_Witness ==
    /\ last.op = "validTransactionIds"
    /\ last.arg.p.transactionIDs.defined
    /\ ~NoRepeat(last.arg)
    /\ AllExist(last.arg)
    /\ AllOwned(last.arg)
    /\ InvoicedIds(last.arg) = {}
    /\ last.result = toFail("INVALID_TRANSACTION_IDS")

\* C35: getProducts returns only products that satisfy all the filters given:
\* owned by owner, of id productId and, with returnUpdated false, without
\* pending updated product.
C35_FiltersCombine ==
    last.op = "getProducts"
        => \A r \in last.result.products :
               /\ last.arg.owner # NULL => r.owner = last.arg.owner
               /\ last.arg.productId # NULL => r.id = last.arg.productId
               /\ ~last.arg.returnUpdated => r.id \notin last.arg.tables.updated_product

====
